---- MODULE Spec2Model ----
(***************************************************************************)
(* A model of src/main.rs: the ABI cache (get_abi), the startup that       *)
(* builds the factory and the two routers, and the loop over the pending   *)
(* transaction stream.                                                     *)
(*                                                                         *)
(* Three specifications are given.  Spec is one run of main.  SpecCache   *)
(* is a sequence of get_abi calls on arbitrary addresses, sharing the      *)
(* durable store.  SpecRace is two get_abi calls whose steps interleave.   *)
(***************************************************************************)
EXTENDS Integers, Sequences, FiniteSets

VARIABLES
    pc,          \* position of main (or "calls" under SpecCache)
    hasWsUrl,    \* dotenv::var("ETH_WS_URL") is Ok
    hasApiKey,   \* dotenv::var("ETHERSCAN_API_KEY") is Ok
    cacheDir,    \* the directory .cache exists
    store,       \* address -> content of .cache/<address>.json
    store0,      \* history: the store when the process started
    calls,       \* history: the get_abi calls made, in order
    factory_v2,  \* main's local factory_v2 (a sequence of 0 or 1 Factory)
    routers,     \* main's local routers (built up in vec! order)
    subscribed,  \* subscribe_pending_txs has returned Ok
    feed,        \* history: the feed events taken from tx_stream so far
    results,     \* history: what the loop did with each completed feed event
    tasks,       \* SpecRace: each get_abi call's position and locals
    writes       \* SpecRace history: the cache files written, in order

vars == <<pc, hasWsUrl, hasApiKey, cacheDir, store, store0, calls,
          factory_v2, routers, subscribed, feed, results, tasks, writes>>

(***************************************************************************)
(* Bounds of the model.                                                    *)
(***************************************************************************)
MaxFeed == 3     \* feed events taken in one run
MaxCalls == 3    \* get_abi calls in one behaviour of SpecCache

(***************************************************************************)
(* Addresses.  The three literals of main are 40 hex digits each, so       *)
(* their parse()? succeeds; an Address is compared by value.               *)
(* UNREGISTERED stands for any address that is none of the three, and      *)
(* NoAddress for the None of an Option<Address>.                           *)
(***************************************************************************)
FACTORY_V2 == "0x5c69bee701ef814a2b6a3edd4b1652cb9cc5aa6f"
ROUTER_01 == "0xf164fc0ec4e93095b804a4795bbe1e041497b92a"
ROUTER_02 == "0x7a250d5630b4cf539739df2c5dacb4c659f2488d"
UNREGISTERED == "0x00000000000000000000000000000000000000aa"

NoAddress == "None"

SeedAddresses == {FACTORY_V2, ROUTER_01, ROUTER_02}
Addresses == SeedAddresses \cup {UNREGISTERED}

(***************************************************************************)
(* Abi.  ethabi keeps the functions of a contract in a map ordered by      *)
(* name, each name holding its overloads in the order read.  A name is     *)
(* modelled by a number (its rank in the order of names) and an overload   *)
(* by the number of its signature.  The JSON text is a sequence of         *)
(* entries <<name, signature>>.                                            *)
(***************************************************************************)
EmptyAbi == <<>>

EntriesNamed(text, n) == SelectSeq(text, LAMBDA e : e[1] = n)

\* serde_json::from_str::<Abi>: group the entries by name, keeping order.
ParseAbi(text) ==
    [n \in {text[i][1] : i \in DOMAIN text} |->
        [k \in 1..Len(EntriesNamed(text, n)) |-> EntriesNamed(text, n)[k][2]]]

MinOf(S) == CHOOSE x \in S : \A y \in S : x <= y

RECURSIVE WriteNames(_, _)
WriteNames(abi, names) ==
    IF names = {} THEN <<>>
    ELSE LET n == MinOf(names)
         IN  [k \in 1..Len(abi[n]) |-> <<n, abi[n][k]>>]
                 \o WriteNames(abi, names \ {n})

\* serde_json::to_string(&abi): the functions in map order.
ToString(abi) == WriteNames(abi, DOMAIN abi)

\* The content of a cache file: absent, JSON of an Abi, or something else.
NoFile == [exists |-> FALSE, json |-> FALSE, text |-> <<>>]
Garbage == [exists |-> TRUE, json |-> FALSE, text |-> <<>>]
JsonFile(text) == [exists |-> TRUE, json |-> TRUE, text |-> text]

\* serde_json::from_str(&abi) on the content of a cache file.
FromStr(file) ==
    IF file.json THEN [ok |-> TRUE, abi |-> ParseAbi(file.text)]
    ELSE [ok |-> FALSE, abi |-> EmptyAbi]

(***************************************************************************)
(* Etherscan.  contract_abi(address) fails, or returns the verified ABI of *)
(* that contract, which is fixed per address.                              *)
(***************************************************************************)
UpstreamText(address) ==
    CASE address = FACTORY_V2 -> << <<3, 1>>, <<1, 1>> >>
      [] address = ROUTER_01  -> << <<2, 1>>, <<1, 1>>, <<2, 2>> >>
      [] address = ROUTER_02  -> << <<2, 2>>, <<2, 1>>, <<1, 2>> >>
      [] OTHER                -> << <<1, 3>> >>

LookupFailed == [ok |-> FALSE, abi |-> EmptyAbi]
LookupOk(address) == [ok |-> TRUE, abi |-> ParseAbi(UpstreamText(address))]
Responses(address) == {LookupFailed, LookupOk(address)}

(***************************************************************************)
(* get_abi(address), run to completion from the store st and directory     *)
(* state dir.  key: ETHERSCAN_API_KEY is set.  dirOk: create_dir succeeds. *)
(* resp: what etherscan.contract_abi(address) answers if it is asked.      *)
(* kind is "ok" (Ok(abi)), "err" (an Err returned by ?) or "panic"         *)
(* (expect on a missing key).                                              *)
(***************************************************************************)
AbiResult(kind, abi, st, dir, looked, wrote) ==
    [kind |-> kind, abi |-> abi, store |-> st, cacheDir |-> dir,
     lookedUp |-> looked, wrote |-> wrote]

\* A plausible slip: the cache file is written before the answer is checked.
FetchAbiWriteFirst(address, st, dir, key, resp) ==
    IF ~key THEN AbiResult("panic", EmptyAbi, st, dir, FALSE, FALSE)
    ELSE IF ~resp.ok
    THEN AbiResult("err", EmptyAbi,
                   [st EXCEPT ![address] = JsonFile(ToString(resp.abi))],
                   dir, TRUE, TRUE)
    ELSE AbiResult("ok", resp.abi,
                   [st EXCEPT ![address] = JsonFile(ToString(resp.abi))],
                   dir, TRUE, TRUE)

\* A plausible slip: a missing key is replaced by a default, not expected.
FetchAbiDefaultKey(address, st, dir, key, resp) ==
    IF ~resp.ok THEN AbiResult("err", EmptyAbi, st, dir, TRUE, FALSE)
    ELSE AbiResult("ok", resp.abi,
                   [st EXCEPT ![address] = JsonFile(ToString(resp.abi))],
                   dir, TRUE, TRUE)

\* lines 50-63: the cache misses.  Client::new(Chain::Mainnet, key) is Ok.
FetchAbi(address, st, dir, key, resp) ==
    IF ~key THEN AbiResult("panic", EmptyAbi, st, dir, FALSE, FALSE)
    ELSE IF ~resp.ok THEN AbiResult("err", EmptyAbi, st, dir, TRUE, FALSE)
    ELSE AbiResult("ok", resp.abi,
                   [st EXCEPT ![address] = JsonFile(ToString(resp.abi))],
                   dir, TRUE, TRUE)

\* A plausible slip: a record that does not parse is removed for a re-fetch.
ReadCachedRemoves(address, st, dir) ==
    LET parsed == FromStr(st[address])
    IN  IF parsed.ok THEN AbiResult("ok", parsed.abi, st, dir, FALSE, FALSE)
        ELSE AbiResult("err", EmptyAbi, [st EXCEPT ![address] = NoFile],
                       dir, FALSE, FALSE)

\* lines 42-48: the cache hits.
ReadCached(address, st, dir) ==
    LET parsed == FromStr(st[address])
    IN  IF parsed.ok THEN AbiResult("ok", parsed.abi, st, dir, FALSE, FALSE)
        ELSE AbiResult("err", EmptyAbi, st, dir, FALSE, FALSE)

\* A plausible slip: the cache is not consulted.
GetAbiNoCacheCheck(address, st, dir, key, dirOk, resp) ==
    IF ~dir /\ ~dirOk THEN AbiResult("err", EmptyAbi, st, dir, FALSE, FALSE)
    ELSE FetchAbi(address, st, TRUE, key, resp)

GetAbi(address, st, dir, key, dirOk, resp) ==
    IF ~dir /\ ~dirOk THEN AbiResult("err", EmptyAbi, st, dir, FALSE, FALSE)
    ELSE IF st[address].exists THEN ReadCached(address, st, TRUE)
    ELSE FetchAbi(address, st, TRUE, key, resp)

\* The record of one get_abi call kept in the history.
CallRecord(address, r, resp) ==
    [address |-> address, kind |-> r.kind, abi |-> r.abi,
     lookedUp |-> r.lookedUp, lookupOk |-> r.lookedUp /\ resp.ok,
     wrote |-> r.wrote]

(***************************************************************************)
(* Hex decoding of a string into [u8; n] (FromHex for arrays).  A string   *)
(* is a sequence of characters.  strip: the build's hex crate accepts and  *)
(* drops a leading 0x (const-hex) or takes it as two digits (hex).         *)
(***************************************************************************)
HexDigits == <<"0", "1", "2", "3", "4", "5", "6", "7",
               "8", "9", "a", "b", "c", "d", "e", "f">>

IsHexDigit(c) == \E v \in DOMAIN HexDigits : HexDigits[v] = c
HexVal(c) == (CHOOSE v \in DOMAIN HexDigits : HexDigits[v] = c) - 1

HasPrefix0x(hex) == Len(hex) >= 2 /\ hex[1] = "0" /\ hex[2] = "x"

FromHex(hex, n, strip) ==
    LET data == IF strip /\ HasPrefix0x(hex) THEN SubSeq(hex, 3, Len(hex))
                ELSE hex
    IN  IF Len(data) % 2 # 0 THEN [ok |-> FALSE, bytes |-> <<>>]
        ELSE IF Len(data) \div 2 # n THEN [ok |-> FALSE, bytes |-> <<>>]
        ELSE IF \E i \in DOMAIN data : ~IsHexDigit(data[i])
             THEN [ok |-> FALSE, bytes |-> <<>>]
        ELSE [ok |-> TRUE,
              bytes |-> [i \in 1..n |->
                  16 * HexVal(data[2 * i - 1]) + HexVal(data[2 * i])]]

\* <[u8]>::starts_with
StartsWith(bytes, needle) ==
    /\ Len(bytes) >= Len(needle)
    /\ \A i \in DOMAIN needle : bytes[i] = needle[i]

\* The literal "0x18cbafe5" of line 116, and the array length asked for.
SwapSelectorHex == <<"0", "x", "1", "8", "c", "b", "a", "f", "e", "5">>
PrefixLen == 12

(***************************************************************************)
(* Feed events.  An event is a transaction hash together with what         *)
(* get_transaction answers for it: an error, no body, or a body with a     *)
(* destination (tx.to) and input bytes (tx.input).  The input is named     *)
(* in the state and its bytes are given by InputBytes.                     *)
(***************************************************************************)
SwapSelector == <<24, 203, 175, 229>>          \* 0x18cbafe5
OtherSelector == <<56, 237, 23, 57>>           \* 0x38ed1739

Zeros(n) == [i \in 1..n |-> 0]
Word(v) == Zeros(31) \o <<v>>                  \* a 32-byte word holding v < 256

\* (uint256, address[], address, uint256) with an empty address[]
SwapParams == Word(1) \o Word(128) \o Word(170) \o Word(9) \o Word(0)

InputNames == {"empty", "short", "swapValid", "swapMalformed", "other"}

InputBytes(name) ==
    CASE name = "empty"         -> <<>>
      [] name = "short"         -> SubSeq(SwapSelector, 1, 3)
      [] name = "swapValid"     -> SwapSelector \o SwapParams
      [] name = "swapMalformed" -> SwapSelector \o SubSeq(SwapParams, 1, 40)
      [] name = "other"         -> OtherSelector \o SwapParams

NoBody(kind) == [body |-> kind, to |-> NoAddress, input |-> "empty"]
Body(to, input) == [body |-> "some", to |-> to, input |-> input]

Events ==
    {NoBody("err"), NoBody("none")}
        \cup {Body(to, input) :
                to \in {NoAddress, ROUTER_01, ROUTER_02, UNREGISTERED},
                input \in InputNames}
        \cup {Body(FACTORY_V2, "swapValid")}

(***************************************************************************)
(* The classification of one fetched transaction, lines 107-131.           *)
(***************************************************************************)
Outcome(outcome, why, printed, logged, inspected) ==
    [outcome |-> outcome, why |-> why, printed |-> printed,
     logged |-> logged, inspected |-> inspected]

\* routers.iter().find(|router| router.address == to): the index, or 0.
\* A plausible slip: a miss falls back to the first router.
FindRouterOrFirst(rs, to) ==
    IF \E i \in DOMAIN rs : rs[i].address = to
    THEN MinOf({i \in DOMAIN rs : rs[i].address = to})
    ELSE 1

FindRouter(rs, to) ==
    IF \E i \in DOMAIN rs : rs[i].address = to
    THEN MinOf({i \in DOMAIN rs : rs[i].address = to})
    ELSE 0

\* lines 111-127: the transaction goes to the router rs[i].
ClassifyRouted(tx, router, strip) ==
    LET printed == <<router.name>>
        prefix == FromHex(SwapSelectorHex, PrefixLen, strip)
    IN  IF ~prefix.ok
        THEN Outcome("Panic", "from_hex", printed, FALSE, FALSE)
        ELSE IF StartsWith(InputBytes(tx.input), prefix.bytes)
        THEN Outcome("Swap", "", printed, TRUE, TRUE)
        ELSE Outcome("NoMatch", "Selector", printed, FALSE, TRUE)

\* match Some(tx.to) { Some(to) => { let to = to.unwrap(); ... } None => ... }
ClassifyTx(tx, rs, strip) ==
    LET scrutinee == [some |-> TRUE, val |-> tx.to]
    IN  IF scrutinee.some
        THEN IF scrutinee.val = NoAddress
             THEN Outcome("Panic", "unwrap", <<>>, FALSE, FALSE)
             ELSE IF FindRouter(rs, scrutinee.val) = 0
             THEN Outcome("NoMatch", "NoRouter", <<>>, FALSE, FALSE)
             ELSE ClassifyRouted(tx, rs[FindRouter(rs, scrutinee.val)], strip)
        ELSE Outcome("NoMatch", "NoDestination", <<"None">>, FALSE, FALSE)

\* What the loop records for an event whose body was not classified.
Skipped == Outcome("Skipped", "", <<>>, FALSE, FALSE)
FeedError == Outcome("FeedError", "", <<>>, FALSE, FALSE)

(***************************************************************************)
(* main.                                                                   *)
(***************************************************************************)
\* The ? operator and expect: where main goes after a call of the given kind.
\* A plausible slip: an Err is dropped (.ok(), unwrap_or_default).
QuestionDropsErr(kind, next) ==
    CASE kind = "ok"    -> next
      [] kind = "err"   -> next
      [] kind = "panic" -> "panicked"

Question(kind, next) ==
    CASE kind = "ok"    -> next
      [] kind = "err"   -> "error"
      [] kind = "panic" -> "panicked"

Factory(address, abi, name) ==
    [address |-> address, abi |-> abi, name |-> name, version |-> 2]

\* A plausible slip: each router builds its factory from its own Abi.
RouterOwnFactory(address, abi, name, factory) ==
    [address |-> address, abi |-> abi, name |-> name, version |-> 2,
     factory |-> <<Factory(FACTORY_V2, abi, "Uniswap V2")>>]

Router(address, abi, name, factory) ==
    [address |-> address, abi |-> abi, name |-> name, version |-> 2,
     factory |-> factory]

\* The two get_abi calls of SpecRace; under Spec and SpecCache they idle.
Tasks == {1, 2}
Task(at, address, abi, kind, why) ==
    [pc |-> at, address |-> address, abi |-> abi, kind |-> kind, why |-> why]
Idle == Task("idle", NoAddress, EmptyAbi, "", "")

\* A store the process can find at startup: nothing without the directory,
\* else per address no file, the JSON once fetched, or an unreadable file.
StartStores(dir) ==
    IF dir
    THEN [Addresses -> {NoFile, Garbage}] \cup
         {[a \in Addresses |-> IF a \in warm
                               THEN JsonFile(ToString(ParseAbi(UpstreamText(a))))
                               ELSE other[a]] :
             warm \in SUBSET Addresses, other \in [Addresses -> {NoFile, Garbage}]}
    ELSE {[a \in Addresses |-> NoFile]}

Init ==
    /\ pc = "start"
    /\ hasWsUrl \in BOOLEAN
    /\ hasApiKey \in BOOLEAN
    /\ cacheDir \in BOOLEAN
    /\ store \in StartStores(cacheDir)
    /\ store[UNREGISTERED] = NoFile
    /\ store0 = store
    /\ calls = <<>>
    /\ factory_v2 = <<>>
    /\ routers = <<>>
    /\ subscribed = FALSE
    /\ feed = <<>>
    /\ results = <<>>
    /\ tasks = [t \in Tasks |-> Idle]
    /\ writes = <<>>

\* A plausible slip: the subscription is made before the registry is built.
ConnectSubscribesFirst ==
    /\ pc = "start"
    /\ UNCHANGED <<tasks, writes>>
    /\ \E ok \in BOOLEAN :
          /\ pc' = IF ~hasWsUrl THEN "panicked"
                   ELSE Question(IF ok THEN "ok" ELSE "err", "factory")
          /\ subscribed' = (hasWsUrl /\ ok)
    /\ UNCHANGED <<hasWsUrl, hasApiKey, cacheDir, store, store0, calls,
                   factory_v2, routers, feed, results>>

\* lines 75-76
Connect ==
    /\ pc = "start"
    /\ UNCHANGED <<tasks, writes>>
    /\ \E ok \in BOOLEAN :
          pc' = IF ~hasWsUrl THEN "panicked"
                ELSE Question(IF ok THEN "ok" ELSE "err", "factory")
    /\ UNCHANGED <<hasWsUrl, hasApiKey, cacheDir, store, store0, calls,
                   factory_v2, routers, subscribed, feed, results>>

\* One get_abi call of main, and the bookkeeping common to the three.
CallGetAbi(address, r, resp, next) ==
    /\ store' = r.store
    /\ cacheDir' = r.cacheDir
    /\ calls' = Append(calls, CallRecord(address, r, resp))
    /\ pc' = Question(r.kind, next)
    /\ UNCHANGED <<hasWsUrl, hasApiKey, store0, subscribed, feed, results>>

\* lines 79-84
InitFactory ==
    /\ pc = "factory"
    /\ UNCHANGED <<tasks, writes>>
    /\ \E dirOk \in BOOLEAN, resp \in Responses(FACTORY_V2) :
          LET r == GetAbi(FACTORY_V2, store, cacheDir, hasApiKey, dirOk, resp)
          IN  /\ CallGetAbi(FACTORY_V2, r, resp, "router1")
              /\ factory_v2' = IF r.kind = "ok"
                               THEN <<Factory(FACTORY_V2, r.abi, "Uniswap V2")>>
                               ELSE factory_v2
              /\ UNCHANGED routers

\* lines 88-94
InitRouter1 ==
    /\ pc = "router1"
    /\ UNCHANGED <<tasks, writes>>
    /\ \E dirOk \in BOOLEAN, resp \in Responses(ROUTER_01) :
          LET r == GetAbi(ROUTER_01, store, cacheDir, hasApiKey, dirOk, resp)
          IN  /\ CallGetAbi(ROUTER_01, r, resp, "router2")
              /\ routers' = IF r.kind = "ok"
                            THEN Append(routers,
                                   Router(ROUTER_01, r.abi, "Uniswap V2",
                                          factory_v2))
                            ELSE routers
              /\ UNCHANGED factory_v2

\* lines 95-102
InitRouter2 ==
    /\ pc = "router2"
    /\ UNCHANGED <<tasks, writes>>
    /\ \E dirOk \in BOOLEAN, resp \in Responses(ROUTER_02) :
          LET r == GetAbi(ROUTER_02, store, cacheDir, hasApiKey, dirOk, resp)
          IN  /\ CallGetAbi(ROUTER_02, r, resp, "subscribe")
              /\ routers' = IF r.kind = "ok"
                            THEN Append(routers,
                                   Router(ROUTER_02, r.abi,
                                          "Uniswap V2: Router 2", factory_v2))
                            ELSE routers
              /\ UNCHANGED factory_v2

\* line 104
Subscribe ==
    /\ pc = "subscribe"
    /\ UNCHANGED <<tasks, writes>>
    /\ \E ok \in BOOLEAN :
          /\ pc' = Question(IF ok THEN "ok" ELSE "err", "next")
          /\ subscribed' = ok
    /\ UNCHANGED <<hasWsUrl, hasApiKey, cacheDir, store, store0, calls,
                   factory_v2, routers, feed, results>>

\* line 105: tx_stream.next() yields a hash
StreamNext ==
    /\ pc = "next"
    /\ UNCHANGED <<tasks, writes>>
    /\ Len(feed) < MaxFeed
    /\ \E ev \in Events : feed' = Append(feed, ev)
    /\ pc' = "fetch"
    /\ UNCHANGED <<hasWsUrl, hasApiKey, cacheDir, store, store0, calls,
                   factory_v2, routers, subscribed, results>>

\* line 105 and 134: tx_stream.next() yields None, main returns Ok(())
StreamEnd ==
    /\ pc = "next"
    /\ UNCHANGED <<tasks, writes>>
    /\ pc' = "done"
    /\ UNCHANGED <<hasWsUrl, hasApiKey, cacheDir, store, store0, calls,
                   factory_v2, routers, subscribed, feed, results>>

\* A plausible slip: the Option is unwrapped instead of matched.
AfterFetchUnwrap(body) ==
    CASE body = "err"  -> [pc |-> Question("err", "classify"),
                           done |-> <<FeedError>>]
      [] body = "none" -> [pc |-> "panicked",
                           done |-> <<Outcome("Panic", "unwrap", <<>>,
                                              FALSE, FALSE)>>]
      [] body = "some" -> [pc |-> Question("ok", "classify"), done |-> <<>>]

\* A plausible slip: the classification is spawned and the loop goes on.
AfterFetchSpawns(body) ==
    CASE body = "err"  -> [pc |-> Question("err", "classify"),
                           done |-> <<FeedError>>]
      [] body = "none" -> [pc |-> "next", done |-> <<Skipped>>]
      [] body = "some" -> [pc |-> "next", done |-> <<>>]

\* line 106: if let Some(tx) = provider_ws.get_transaction(hash).await?
\* Where the loop goes, and the result recorded if the event is finished.
AfterFetch(body) ==
    CASE body = "err"  -> [pc |-> Question("err", "classify"),
                           done |-> <<FeedError>>]
      [] body = "none" -> [pc |-> "next", done |-> <<Skipped>>]
      [] body = "some" -> [pc |-> Question("ok", "classify"), done |-> <<>>]

GetTransaction ==
    /\ pc = "fetch"
    /\ UNCHANGED <<tasks, writes>>
    /\ pc' = AfterFetch(feed[Len(feed)].body).pc
    /\ results' = results \o AfterFetch(feed[Len(feed)].body).done
    /\ UNCHANGED <<hasWsUrl, hasApiKey, cacheDir, store, store0, calls,
                   factory_v2, routers, subscribed, feed>>

\* lines 107-131
Classify ==
    /\ pc = "classify"
    /\ UNCHANGED <<tasks, writes>>
    /\ \E strip \in BOOLEAN :
          LET c == ClassifyTx(feed[Len(feed)], routers, strip)
          IN  /\ results' = Append(results, c)
              /\ pc' = IF c.outcome = "Panic" THEN "panicked" ELSE "next"
    /\ UNCHANGED <<hasWsUrl, hasApiKey, cacheDir, store, store0, calls,
                   factory_v2, routers, subscribed, feed>>

Next ==
    \/ Connect
    \/ InitFactory
    \/ InitRouter1
    \/ InitRouter2
    \/ Subscribe
    \/ StreamNext
    \/ StreamEnd
    \/ GetTransaction
    \/ Classify

Spec == Init /\ [][Next]_vars

(***************************************************************************)
(* SpecCache: get_abi called again and again, on any address, by a caller  *)
(* that stops at the first panic.                                          *)
(***************************************************************************)
InitCache ==
    /\ pc = "calls"
    /\ hasWsUrl = TRUE
    /\ hasApiKey \in BOOLEAN
    /\ cacheDir \in BOOLEAN
    /\ store \in StartStores(cacheDir)
    /\ store0 = store
    /\ calls = <<>>
    /\ factory_v2 = <<>>
    /\ routers = <<>>
    /\ subscribed = FALSE
    /\ feed = <<>>
    /\ results = <<>>
    /\ tasks = [t \in Tasks |-> Idle]
    /\ writes = <<>>

\* lines 34-64
GetAbiCall ==
    /\ pc = "calls"
    /\ UNCHANGED <<tasks, writes>>
    /\ Len(calls) < MaxCalls
    /\ \E address \in Addresses, dirOk \in BOOLEAN :
          \E resp \in Responses(address) :
             LET r == GetAbi(address, store, cacheDir, hasApiKey, dirOk, resp)
             IN  /\ store' = r.store
                 /\ cacheDir' = r.cacheDir
                 /\ calls' = Append(calls, CallRecord(address, r, resp))
                 /\ pc' = IF r.kind = "panic" THEN "panicked" ELSE "calls"
    /\ UNCHANGED <<hasWsUrl, hasApiKey, store0, factory_v2, routers,
                   subscribed, feed, results>>

NextCache == GetAbiCall

SpecCache == InitCache /\ [][NextCache]_vars

(***************************************************************************)
(* SpecRace: two calls of get_abi running in parallel (two spawned tasks   *)
(* of the multi-thread runtime, or two processes in one directory), each   *)
(* file-system call and the lookup being one step.                         *)
(***************************************************************************)
InitRace ==
    /\ pc = "race"
    /\ hasWsUrl = TRUE
    /\ hasApiKey \in BOOLEAN
    /\ cacheDir \in BOOLEAN
    /\ store \in StartStores(cacheDir)
    /\ store[UNREGISTERED] = NoFile
    /\ store0 = store
    /\ calls = <<>>
    /\ factory_v2 = <<>>
    /\ routers = <<>>
    /\ subscribed = FALSE
    /\ feed = <<>>
    /\ results = <<>>
    /\ tasks \in [Tasks -> {Task("dir", a, EmptyAbi, "", "") :
                              a \in SeedAddresses}]
    /\ writes = <<>>

\* What a step of the call t leaves alone besides the file system.
RaceFrame ==
    UNCHANGED <<pc, hasWsUrl, hasApiKey, store0, calls, factory_v2, routers,
                subscribed, feed, results>>

Goto(t, at) == tasks' = [tasks EXCEPT ![t].pc = at]
Return(t, abi, kind, why) ==
    tasks' = [tasks EXCEPT ![t] = Task("done", tasks[t].address, abi, kind, why)]

\* line 37: if !cache_path.exists()
CheckDir(t) ==
    /\ tasks[t].pc = "dir"
    /\ Goto(t, IF cacheDir THEN "file" ELSE "mkdir")
    /\ UNCHANGED <<cacheDir, store, writes>>
    /\ RaceFrame

\* line 39: std::fs::create_dir(cache_path)?, an Err if the path exists
CreateDir(t) ==
    /\ tasks[t].pc = "mkdir"
    /\ \E dirOk \in BOOLEAN :
          IF cacheDir
          THEN /\ Return(t, EmptyAbi, "err", "AlreadyExists")
               /\ UNCHANGED cacheDir
          ELSE IF ~dirOk
          THEN /\ Return(t, EmptyAbi, "err", "create_dir")
               /\ UNCHANGED cacheDir
          ELSE /\ Goto(t, "file")
               /\ cacheDir' = TRUE
    /\ UNCHANGED <<store, writes>>
    /\ RaceFrame

\* line 44: if cache_file.exists()
CheckFile(t) ==
    /\ tasks[t].pc = "file"
    /\ Goto(t, IF store[tasks[t].address].exists THEN "read" ELSE "client")
    /\ UNCHANGED <<cacheDir, store, writes>>
    /\ RaceFrame

\* lines 46-47: read_to_string and from_str
ReadFile(t) ==
    /\ tasks[t].pc = "read"
    /\ LET parsed == FromStr(store[tasks[t].address])
       IN  IF parsed.ok THEN Return(t, parsed.abi, "ok", "cached")
           ELSE Return(t, EmptyAbi, "err", "from_str")
    /\ UNCHANGED <<cacheDir, store, writes>>
    /\ RaceFrame

\* lines 51-55: Client::new with the key
NewClient(t) ==
    /\ tasks[t].pc = "client"
    /\ IF hasApiKey THEN Goto(t, "lookup")
       ELSE Return(t, EmptyAbi, "panic", "ETHERSCAN_API_KEY missing")
    /\ UNCHANGED <<cacheDir, store, writes>>
    /\ RaceFrame

\* line 57: etherscan.contract_abi(address).await?
Lookup(t) ==
    /\ tasks[t].pc = "lookup"
    /\ \E resp \in Responses(tasks[t].address) :
          IF resp.ok
          THEN tasks' = [tasks EXCEPT ![t].pc = "write", ![t].abi = resp.abi]
          ELSE Return(t, EmptyAbi, "err", "contract_abi")
    /\ UNCHANGED <<cacheDir, store, writes>>
    /\ RaceFrame

\* lines 61-63: std::fs::write creates or truncates the file
WriteFile(t) ==
    /\ tasks[t].pc = "write"
    /\ store' = [store EXCEPT ![tasks[t].address] =
                                JsonFile(ToString(tasks[t].abi))]
    /\ writes' = Append(writes, [task |-> t, address |-> tasks[t].address,
                                 over |-> store[tasks[t].address].exists])
    /\ Return(t, tasks[t].abi, "ok", "fetched")
    /\ UNCHANGED cacheDir
    /\ RaceFrame

NextRace ==
    \E t \in Tasks :
        \/ CheckDir(t)
        \/ CreateDir(t)
        \/ CheckFile(t)
        \/ ReadFile(t)
        \/ NewClient(t)
        \/ Lookup(t)
        \/ WriteFile(t)

SpecRace == InitRace /\ [][NextRace]_vars

(***************************************************************************)
(* The claims.                                                             *)
(***************************************************************************)
RouterAddresses == {routers[k].address : k \in DOMAIN routers}

\* The loop took event i and is through with it, and waits for or has seen
\* what follows.
LoopWentOn(i) == i < Len(feed) \/ pc \in {"next", "done"}

IsCreation(ev) == ev.body = "some" /\ ev.to = NoAddress
IsRouted(ev) == ev.body = "some" /\ ev.to \in RouterAddresses
IsUnrouted(ev) ==
    ev.body = "some" /\ ev.to # NoAddress /\ ev.to \notin RouterAddresses

\* C1 (as claimed): every fetched transaction with an absent destination is
\* classified NoMatch, told apart from a routing miss, with no router
\* lookup, no look at its input and no decode attempt.
C1_CreationIsNoMatch ==
    \A i \in DOMAIN results :
        IsCreation(feed[i]) =>
            /\ results[i].outcome = "NoMatch"
            /\ results[i].why = "NoDestination"
            /\ ~results[i].inspected

\* C2: once a get_abi(A) has returned Ok, every later get_abi(A) asks
\* Etherscan nothing and returns the same Abi.
C2_CacheIdempotent ==
    \A i, j \in DOMAIN calls :
        (i < j /\ calls[i].address = calls[j].address /\ calls[i].kind = "ok")
            => /\ ~calls[j].lookedUp
               /\ calls[j].kind = "ok"
               /\ calls[j].abi = calls[i].abi

\* C2 witness: a fetched and cached Abi is returned again by a later call.
C2_Witness ==
    \E i, j \in DOMAIN calls :
        /\ i < j
        /\ calls[i].address = calls[j].address
        /\ calls[i].lookupOk /\ calls[i].wrote
        /\ calls[j].kind = "ok"

\* C3 (as claimed): a transaction to a registered router that carries the
\* swap selector and malformed parameters does not stop the loop, which
\* goes on to the events after it.
C3_MalformedDoesNotStopLoop ==
    \A i \in DOMAIN results :
        (IsRouted(feed[i]) /\ feed[i].input = "swapMalformed")
            => results[i].outcome # "Panic" /\ LoopWentOn(i)

\* C4 (as claimed): a transaction to a registered router whose input is the
\* selector 0x18cbafe5 and validly encoded parameters is matched as the
\* swap and an observation is emitted for it.
C4_SwapIsMatched ==
    \A i \in DOMAIN results :
        (IsRouted(feed[i]) /\ feed[i].input = "swapValid")
            => results[i].outcome = "Swap" /\ results[i].logged

\* C5 (as claimed): a transaction to a registered router whose input is
\* shorter than 4 bytes is NoMatch, never a swap, never an error, and the
\* loop goes on.
C5_ShortInputIsNoMatch ==
    \A i \in DOMAIN results :
        (IsRouted(feed[i]) /\ Len(InputBytes(feed[i].input)) < 4)
            => results[i].outcome = "NoMatch" /\ LoopWentOn(i)

\* C6: a transaction whose destination is present and is no registered
\* router is NoMatch whatever its input: the input is not looked at,
\* nothing is printed or logged, and the loop goes on.
C6_UnroutedIsNoMatch ==
    \A i \in DOMAIN results :
        IsUnrouted(feed[i]) =>
            /\ results[i] = Outcome("NoMatch", "NoRouter", <<>>, FALSE, FALSE)
            /\ LoopWentOn(i)

\* C6 witness: a swap-shaped transaction to an unregistered address was
\* classified and the loop took the event after it.
C6_Witness ==
    \E i \in DOMAIN results :
        /\ IsUnrouted(feed[i])
        /\ feed[i].input = "swapValid"
        /\ i < Len(feed)

\* C7: a get_abi call that finds no record and whose lookup fails returns
\* an error and leaves the store as it was, with no record for the address.
C7_FailedLookupWritesNothing ==
    [][\A address \in Addresses :
          (/\ Len(calls') = Len(calls) + 1
           /\ calls'[Len(calls')].address = address
           /\ ~store[address].exists
           /\ calls'[Len(calls')].lookedUp
           /\ ~calls'[Len(calls')].lookupOk)
              => /\ calls'[Len(calls')].kind = "err"
                 /\ store' = store
                 /\ ~store'[address].exists]_vars

\* C7 witness: a lookup has failed for an address that has no record.
C7_Witness ==
    \E i \in DOMAIN calls :
        /\ calls[i].lookedUp
        /\ ~calls[i].lookupOk
        /\ ~store[calls[i].address].exists

\* C8: if get_abi fails for the factory or for either router, main has
\* ended with that error without subscribing: no feed event is taken.
C8_StartupFailFast ==
    \A i \in DOMAIN calls :
        calls[i].kind = "err" =>
            /\ pc = "error"
            /\ ~subscribed
            /\ feed = <<>>
            /\ results = <<>>
            /\ i = Len(calls)

\* C8 witness: the second router fails to resolve after the factory and
\* the first router resolved.
C8_Witness ==
    /\ Len(calls) = 3
    /\ calls[1].kind = "ok" /\ calls[2].kind = "ok"
    /\ calls[3].kind = "err"
    /\ Len(routers) = 1

\* C9: a feed event whose body is unavailable is skipped: nothing is
\* classified, printed or logged for it, no error is raised, and the loop
\* goes on.
C9_UnavailableBodySkipped ==
    \A i \in DOMAIN results :
        feed[i].body = "none" => results[i] = Skipped /\ LoopWentOn(i)

\* C9 witness: an event without body was skipped and the next event taken.
C9_Witness ==
    \E i \in DOMAIN results : feed[i].body = "none" /\ i < Len(feed)

InStartup == pc \in {"start", "factory", "router1", "router2"}
Failed == pc \in {"error", "panicked"}

\* C10 (as claimed): with ETH_WS_URL or ETHERSCAN_API_KEY absent the
\* process never gets past startup, whatever the cache holds.
C10_BothValuesRequired ==
    (~hasWsUrl \/ ~hasApiKey) => (InStartup \/ Failed) /\ ~subscribed

\* C10 (amended): with ETH_WS_URL absent, or with ETHERSCAN_API_KEY absent
\* and no cache record for at least one of the three seed addresses, the
\* process never gets past startup.
C10_RequiredWhenNeeded ==
    (~hasWsUrl \/ (~hasApiKey /\ \E a \in SeedAddresses : ~store0[a].exists))
        => (InStartup \/ Failed) /\ ~subscribed

\* C10 witness: the key is absent, the factory was served from the cache
\* and the first router, not cached, ended the process.
C10_Witness ==
    /\ ~hasApiKey
    /\ pc = "panicked"
    /\ Len(calls) = 2
    /\ calls[1].kind = "ok"
    /\ calls[2].kind = "panic"

\* The first 4 bytes of an input (all of it if it is shorter).
First4(bytes) == SubSeq(bytes, 1, IF Len(bytes) < 4 THEN Len(bytes) ELSE 4)

\* C11 (as claimed): once subscribed, main ends early only on an error of
\* get_transaction, never because of what a transaction holds; otherwise
\* it takes every feed event and returns Ok.
C11_StopsOnlyOnFeedError ==
    (subscribed /\ Failed) =>
        /\ pc = "error"
        /\ feed # <<>>
        /\ feed[Len(feed)].body = "err"

\* C12 (as claimed): a transaction to a registered router gets a match or
\* no-match outcome that its first 4 bytes decide: two such transactions
\* whose inputs agree on the first 4 bytes get the same outcome.
C12_SelectorIsFirst4Bytes ==
    \A i, j \in DOMAIN results :
        (/\ IsRouted(feed[i])
         /\ IsRouted(feed[j])
         /\ First4(InputBytes(feed[i].input)) = First4(InputBytes(feed[j].input)))
            => /\ results[i].outcome \in {"Swap", "NoMatch"}
               /\ results[i].outcome = results[j].outcome

\* C13 (as claimed): when two get_abi calls for one address interleave, the
\* record of that address is written by the first writer only and no write
\* replaces a record that exists.
C13_FirstWriterWins ==
    \A i, j \in DOMAIN writes :
        /\ ~writes[i].over
        /\ writes[i].address = writes[j].address => i = j

CallsWriting(address) ==
    {i \in DOMAIN calls : calls[i].address = address /\ calls[i].wrote}

\* C14: in a sequential run no get_abi call changes or removes a record
\* that exists, and at most one call writes the record of an address.
C14_RecordsWriteOnce ==
    [][\A address \in Addresses :
          /\ store[address].exists => store'[address] = store[address]
          /\ Cardinality(CallsWriting(address)') <= 1]_vars

\* C14 witness: a call wrote the record of an address and a later call for
\* that address has returned.
C14_Witness ==
    \E i, j \in DOMAIN calls :
        /\ i < j
        /\ calls[i].address = calls[j].address
        /\ calls[i].wrote
        /\ store[calls[i].address].exists

\* C15 (as claimed): when two get_abi calls interleave while .cache is
\* absent, neither fails because the other created the directory.
C15_CreateDirSafeToRace ==
    \A t \in Tasks : tasks[t].why # "AlreadyExists"

\* C16: feed events are handled one at a time in feed order: an event is
\* taken only when every earlier one is finished, and a result that is
\* recorded is that of the event taken last.
C16_OneAtATimeInOrder ==
    [][/\ Len(feed') > Len(feed)
            => Len(feed') = Len(feed) + 1 /\ Len(results) = Len(feed)
       /\ Len(results') > Len(results)
            => Len(results') = Len(results) + 1 /\ Len(results') = Len(feed')
       /\ \A i \in DOMAIN feed : feed'[i] = feed[i]
       /\ \A i \in DOMAIN results : results'[i] = results[i]]_vars

\* C16 witness: a third event is being classified after two were finished.
C16_Witness ==
    /\ Len(feed) = 3
    /\ Len(results) = 2
    /\ pc = "classify"
    /\ results[1].outcome = "NoMatch"

\* C17: once the feed is subscribed, no get_abi call, no lookup and no
\* write to the cache happens.
C17_NoLookupAfterSubscribe ==
    [][subscribed =>
          /\ calls' = calls
          /\ store' = store
          /\ cacheDir' = cacheDir]_vars

\* C17 witness: an Abi was looked up and written at startup and the loop
\* has since handled a feed event.
C17_Witness ==
    /\ subscribed
    /\ results # <<>>
    /\ \E i \in DOMAIN calls : calls[i].lookupOk /\ calls[i].wrote

CallsFor(address) == {i \in DOMAIN calls : calls[i].address = address}

\* C18: the factory address is resolved by one get_abi call and every
\* router holds that one Factory value.
C18_FactoryResolvedOnce ==
    /\ Cardinality(CallsFor(FACTORY_V2)) <= 1
    /\ \A k \in DOMAIN routers :
          /\ Len(factory_v2) = 1
          /\ routers[k].factory = factory_v2
          /\ calls[1].address = FACTORY_V2
          /\ routers[k].factory[1].abi = calls[1].abi

\* C18 witness: both routers are built.
C18_Witness ==
    /\ Len(routers) = 2
    /\ routers[1].address # routers[2].address
    /\ routers[1].abi # routers[2].abi

\* C19: get_abi for an address whose record does not parse returns an
\* error, asks Etherscan nothing and leaves the record as it is, on the
\* first call and on every later one.
C19_CorruptRecordStays ==
    \A i \in DOMAIN calls :
        store0[calls[i].address] = Garbage =>
            /\ calls[i].kind = "err"
            /\ ~calls[i].lookedUp
            /\ ~calls[i].wrote
            /\ store[calls[i].address] = Garbage

\* C19 witness: two calls for an address whose record does not parse.
C19_Witness ==
    \E i, j \in DOMAIN calls :
        /\ i < j
        /\ calls[i].address = calls[j].address
        /\ store0[calls[i].address] = Garbage
        /\ calls[j].kind = "err"

====
